---- MODULE Spec2Model ----
(***************************************************************************)
(* FacilitaMed backend (src/app/main.py): the entitlement and access gate. *)
(* src/main.py is a second application, with the token check only: it is   *)
(* MainSpec.                                                               *)
(* Requests run in FastAPI's thread pool, so handlers for the same account  *)
(* interleave.  One action is one stretch of a handler that ends with its  *)
(* next write to the database or with its response: the reads and the     *)
(* local steps before a write do not depend on how they interleave.        *)
(*                                                                         *)
(* Time is counted in days.  An e-mail is a sequence of characters, so     *)
(* that lower() and split("@") are computed and not assumed.               *)
(***************************************************************************)
EXTENDS Integers, Sequences, FiniteSets, TLC

VARIABLES
    FIREBASE_PROJECT_ID,  \* the project id, <<>> when unset (line 33; src/main.py 13)
    ALLOWED_EMAILS,     \* set of lower-cased e-mails (line 42)
    ALLOWED_DOMAINS,    \* set of lower-cased domains (line 43)
    STRIPE_SECRET_KEY,  \* TRUE iff the variable is set (line 37)
    STRIPE_PRICE_ID,    \* TRUE iff the variable is set (line 38)
    users,              \* the User table, by its index on email: key -> rows
    reqs,               \* the requests in flight, one per worker slot
    clock,              \* datetime.utcnow(), in days
    resp,               \* the response a step has written, until it is sent
    applied             \* history: <<account, session_id>> pairs already activated

vars == <<FIREBASE_PROJECT_ID, ALLOWED_EMAILS, ALLOWED_DOMAINS, STRIPE_SECRET_KEY, STRIPE_PRICE_ID,
          users, reqs, clock, resp, applied>>

config == <<FIREBASE_PROJECT_ID, ALLOWED_EMAILS, ALLOWED_DOMAINS, STRIPE_SECRET_KEY,
            STRIPE_PRICE_ID>>

----------------------------------------------------------------------------
(* Bounds of the model *)

MaxReq == 2         \* worker slots: requests in flight at once
MaxClock == 30      \* the clock stops here
TickDays == 15      \* one step of the clock

(* Program constants *)

None == -1                  \* Python's None for an Optional[datetime]
PlanDays == 30              \* timedelta(days=30)
StripeNotConfigured == 500  \* HTTPException(500, "Stripe não configurado")
\* (variant) verify-session answering a provider failure as checkout does
StripeVerifyErrorAsCheckout == StripeNotConfigured
StripeVerifyError == 400    \* HTTPException(400, f"Stripe verify error: {e}")

----------------------------------------------------------------------------
(* Strings *)

LowerChar(c) ==
    CASE c = "A" -> "a"
      [] c = "B" -> "b"
      [] c = "X" -> "x"
      [] OTHER -> c

\* str.lower()
Lower(s) == [i \in 1..Len(s) |-> LowerChar(s[i])]

\* s.split("@")[-1]: what follows the last "@", the whole string without one
LastAtPart(s) ==
    LET ats == {i \in 1..Len(s) : s[i] = "@"}
        last == IF ats = {} THEN 0 ELSE CHOOSE i \in ats : \A j \in ats : j <= i
    IN  SubSeq(s, last + 1, Len(s))

\* datetime.isoformat(): a string, never null
IsoFormat(t) == <<"T", t>>

\* sub in s, of two Python strings
Contains(sub, s) ==
    \E i \in 1..(Len(s) - Len(sub) + 1) : SubSeq(s, i, i + Len(sub) - 1) = sub

\* creds.scheme.lower()
SchemeLower(scheme) ==
    CASE scheme = "Bearer" -> "bearer"
      [] scheme = "Basic" -> "basic"
      [] OTHER -> scheme

----------------------------------------------------------------------------
(* Inputs *)

\* project ids: the deployment's, another one, and one that contains the first
Projects == { <<"p">>, <<"q">>, <<"p", "q">> }

\* the iss claim of a token minted for project p: a fixed prefix and the id
Issuer(p) == <<"s", "/">> \o p

Emails == { <<"A", "@", "b">>, <<"x", "@", "a", "b">> }

NoEmail == <<>>

\* the environments the process starts in: the raw lists of ALLOWED_EMAILS
\* and ALLOWED_DOMAINS, and whether STRIPE_SECRET_KEY and STRIPE_PRICE_ID are set
Environments ==
    { [project |-> <<>>, emails |-> {<<"A", "@", "b">>}, domains |-> {},
       key |-> TRUE, price |-> TRUE],
      [project |-> <<>>, emails |-> {}, domains |-> {<<"B">>},
       key |-> TRUE, price |-> FALSE],
      [project |-> <<"p">>, emails |-> {<<"x", "@", "a", "b">>}, domains |-> {},
       key |-> FALSE, price |-> TRUE],
      [project |-> <<>>, emails |-> {}, domains |-> {},
       key |-> FALSE, price |-> FALSE] }

\* Authorization header: absent, a scheme other than "Bearer ", a token Firebase
\* rejects, a token Firebase verifies (with or without an e-mail claim)
\* A verified token carries the claims email, aud and iss.
NoAuthorization ==
    [scheme |-> "none", verified |-> FALSE, email |-> NoEmail, aud |-> <<>>,
     iss |-> <<>>]
Unverified(scheme) == [NoAuthorization EXCEPT !.scheme = scheme]
Token(e, aud, iss) ==
    [scheme |-> "Bearer", verified |-> TRUE, email |-> e, aud |-> aud, iss |-> iss]
\* the tokens sent to src/app/main.py: of the deployment's project, and one
\* that Firebase verifies for another project
Authorizations ==
    { NoAuthorization, Unverified("Basic"), Unverified("Bearer") }
    \cup { Token(e, <<"p">>, Issuer(<<"p">>)) : e \in Emails \cup {NoEmail} }
    \cup { Token(<<"x", "@", "a", "b">>, <<"q">>, Issuer(<<"q">>)) }
\* the tokens sent to src/main.py: every aud with every iss, and the scheme
\* in lower case
MainAuthorizations ==
    { NoAuthorization, Unverified("Basic"), Unverified("Bearer") }
    \cup { [Token(e, aud, Issuer(p)) EXCEPT !.scheme = scheme] :
             e \in {<<"A", "@", "b">>, NoEmail}, aud \in Projects, p \in Projects,
             scheme \in {"Bearer", "bearer"} }

SessionIds == {"cs_1"}

\* one endpoint of each gated family: patients, visits, AI, PDF
GatedEndpoints == { "get_patient", "add_visit", "ia_diagnostico", "pdf_atestado" }

OpenEndpoints == { "me_status", "create_checkout_session", "verify_session" }

Endpoints == GatedEndpoints \cup OpenEndpoints

\* the session_id of a request body: only VerifyBody has one
BodySessionIds(ep) == IF ep = "verify_session" THEN SessionIds ELSE {"-"}

\* what stripe.checkout.Session.retrieve hands back: the session's status and
\* payment_status, or an exception
NoSession == [status |-> "-", payment_status |-> "-"]
StripeError == [status |-> "error", payment_status |-> "error"]
StripeSessions ==
    { [status |-> "open", payment_status |-> "unpaid"],
      [status |-> "complete", payment_status |-> "unpaid"],
      [status |-> "complete", payment_status |-> "paid"] }

\* what the rest of a request meets outside the gate: whether
\* stripe.checkout.Session.create returns (200) or raises (500), what the body
\* of a gated endpoint answers (404 without the patient, 500 without
\* OPENAI_API_KEY)
Codes(ep) ==
    CASE ep = "create_checkout_session" -> {200, 500}
      [] ep = "get_patient" -> {200, 404}
      [] ep = "add_visit" -> {200, 404}
      [] ep = "ia_diagnostico" -> {200, 500}
      [] OTHER -> {200}

\* ... and what stripe.checkout.Session.retrieve answers
Answers(ep) ==
    IF ep = "verify_session" THEN StripeSessions \cup {StripeError} ELSE {NoSession}

Outcomes(ep) == [code : Codes(ep), s : Answers(ep)]

----------------------------------------------------------------------------
(* The User table *)

Keys == {Lower(e) : e \in Emails}

NoUser == [email |-> NoEmail, is_active |-> FALSE, plan_expires_at |-> None,
           created_at |-> None]

\* Session.get(User, key) on a table: the row with this primary key, or None
DbGet(table, key) == IF table[key] = <<>> THEN NoUser ELSE table[key][1]

\* (variant) email without primary_key=True: every INSERT succeeds
NoPrimaryKey(key) == TRUE

\* the primary key of User (email) is unique: a second INSERT of a key fails
PrimaryKeyFree(key) == users[key] = <<>>

\* User(email=..., is_active=False, plan_expires_at=None), created_at = utcnow()
NewUser(key) == [email |-> key, is_active |-> FALSE, plan_expires_at |-> None,
                 created_at |-> clock]

\* s.add(u); s.commit() of a new object: the INSERT
DbInsert(u) == [users EXCEPT ![u.email] = Append(@, u)]

\* (variant) an UPDATE that merges the windows: it keeps the later expiry
DbUpdateMerged(u) ==
    [users EXCEPT ![u.email] =
        [i \in 1..Len(@) |->
            [@[i] EXCEPT !.is_active = u.is_active,
                         !.plan_expires_at =
                            IF @ > u.plan_expires_at THEN @ ELSE u.plan_expires_at]]]

\* db.add(u); db.commit() of a loaded object: the UPDATE of its assigned columns
DbUpdate(u) ==
    [users EXCEPT ![u.email] =
        [i \in 1..Len(@) |-> [@[i] EXCEPT !.is_active = u.is_active,
                                          !.plan_expires_at = u.plan_expires_at]]]

----------------------------------------------------------------------------
(* Pure functions of the handlers *)

\* (variant) a domain rule that matches with endswith
domain_allowed_endswith(email) ==
    LET low == Lower(email)
        EndsWith(s, d) == Len(d) <= Len(s) /\ SubSeq(s, Len(s) - Len(d) + 1, Len(s)) = d
    IN  IF ALLOWED_EMAILS # {} /\ low \in ALLOWED_EMAILS THEN TRUE
        ELSE IF ALLOWED_DOMAINS # {} /\ \E d \in ALLOWED_DOMAINS : EndsWith(low, d)
             THEN TRUE
        ELSE ~(ALLOWED_EMAILS # {} \/ ALLOWED_DOMAINS # {})

\* domain_allowed
domain_allowed(email) ==
    IF ALLOWED_EMAILS # {} /\ Lower(email) \in ALLOWED_EMAILS THEN TRUE
    ELSE IF ALLOWED_DOMAINS # {} /\ LastAtPart(Lower(email)) \in ALLOWED_DOMAINS
         THEN TRUE
    ELSE ~(ALLOWED_EMAILS # {} \/ ALLOWED_DOMAINS # {})

\* (variant) a gate that still admits at the instant of expiry
IsActiveAtExpiry(user, now) ==
    user.is_active /\ (user.plan_expires_at = None \/ user.plan_expires_at >= now)

\* the condition of require_active_user and of me_status
IsActive(user, now) ==
    user.is_active /\ (user.plan_expires_at = None \/ user.plan_expires_at > now)

\* (variant) a plan of 31 days
NewExpiryLongMonth(now) == now + PlanDays + 1

\* datetime.utcnow() + timedelta(days=30)
NewExpiry(now) == now + PlanDays

\* (variant) paid == "paid" or status: true of every non-empty status
IsPaidOrAnyStatus(s) == s.payment_status = "paid" \/ s.status # ""

\* paid == "paid" or status == "complete"
IsPaid(s) == s.payment_status = "paid" \/ s.status = "complete"

\* u.is_active = True; u.plan_expires_at = utcnow() + 30 days
Activated(u, now) == [u EXCEPT !.is_active = TRUE, !.plan_expires_at = NewExpiry(now)]

----------------------------------------------------------------------------
(* Requests and responses *)

Idle == [pc |-> "idle", ep |-> "-", auth |-> NoAuthorization, sid |-> "-",
         user |-> NoUser, s |-> NoSession, u |-> NoUser]

Slots == 1..MaxReq

NoResponse == [status |-> 0, ok |-> FALSE, st |-> "-", pay |-> "-",
               active |-> FALSE, until |-> <<>>, req |-> Idle]

\* an HTTP response with this status code, to request r
Response(r, code) == [NoResponse EXCEPT !.status = code, !.req = r]

\* (variant) the two raw fields swapped
VerifyResponseSwapped(r, ok) ==
    [Response(r, 200) EXCEPT !.ok = ok, !.st = r.s.payment_status, !.pay = r.s.status]

\* {"ok": ..., "status": status, "payment_status": paid}
VerifyResponse(r, ok) == [Response(r, 200) EXCEPT !.ok = ok, !.st = r.s.status,
                                                  !.pay = r.s.payment_status]

\* {"email": ..., "active": active, "plan_expires_at": until}
StatusResponse(r, now) ==
    [Response(r, 200) EXCEPT
        !.active = IsActive(r.user, now),
        !.until = IF r.user.plan_expires_at # None
                  THEN IsoFormat(r.user.plan_expires_at) ELSE <<>>]

\* the request of slot k ends with response out
Reply(k, out) ==
    /\ reqs' = [reqs EXCEPT ![k] = Idle]
    /\ resp' = out

\* the request of slot k goes on as r, and nothing is sent
Continue(k, r) ==
    /\ reqs' = [reqs EXCEPT ![k] = r]
    /\ resp' = NoResponse

Init ==
    /\ \E env \in Environments :
          /\ FIREBASE_PROJECT_ID = env.project
          /\ ALLOWED_EMAILS = {Lower(e) : e \in env.emails}
          /\ ALLOWED_DOMAINS = {Lower(d) : d \in env.domains}
          /\ STRIPE_SECRET_KEY = env.key
          /\ STRIPE_PRICE_ID = env.price
    /\ users = [key \in Keys |-> <<>>]
    /\ reqs = [k \in Slots |-> Idle]
    /\ clock = 0
    /\ resp = NoResponse
    /\ applied = {}

----------------------------------------------------------------------------
(* The endpoints, for request r of slot k that get_user has given r.user. *)
(* table is the User table as get_user leaves it.                         *)

\* GET /me/status
me_status(k, r) == Reply(k, StatusResponse(r, clock))

\* POST /billing/create-checkout-session
create_checkout_session(k, r, code) ==
    IF ~STRIPE_SECRET_KEY \/ ~STRIPE_PRICE_ID
    THEN Reply(k, Response(r, StripeNotConfigured))
    ELSE Reply(k, Response(r, code))

\* require_active_user, then the body of the gated endpoint, which answers code
require_active_user(k, r, code) ==
    IF IsActive(r.user, clock)
    THEN Reply(k, Response(r, code))
    ELSE Reply(k, Response(r, 402))

\* POST /billing/verify-session, up to db.commit(); s is what
\* stripe.checkout.Session.retrieve(body.session_id) answers
verify_session(k, r, s, table) ==
    LET u == DbGet(table, Lower(r.user.email))
        rs == [r EXCEPT !.s = s]
    IN  IF ~STRIPE_SECRET_KEY THEN Reply(k, Response(r, StripeNotConfigured))
        ELSE IF s = StripeError THEN Reply(k, Response(r, StripeVerifyError))
        ELSE IF ~IsPaid(s) THEN Reply(k, VerifyResponse(rs, FALSE))
        ELSE IF u = NoUser THEN Reply(k, VerifyResponse(rs, TRUE))
        ELSE Continue(k, [rs EXCEPT !.pc = "commit", !.u = Activated(u, clock)])

Endpoint(k, r, out, table) ==
    CASE r.ep = "me_status" -> me_status(k, r)
      [] r.ep = "create_checkout_session" -> create_checkout_session(k, r, out.code)
      [] r.ep = "verify_session" -> verify_session(k, r, out.s, table)
      [] OTHER -> require_active_user(k, r, out.code)

----------------------------------------------------------------------------
(* Actions *)

\* what get_user raises before it touches the database: 401 from
\* verify_firebase_token or for a token without e-mail, 403 from the policy
Rejection(auth) ==
    IF auth.scheme # "Bearer" \/ ~auth.verified THEN 401
    ELSE IF auth.email = NoEmail THEN 401
    ELSE IF ~domain_allowed(auth.email) THEN 403
    ELSE 0

\* A request arrives at the lowest free worker slot.  get_user:
\* verify_firebase_token, the e-mail claim, domain_allowed, then
\* u = s.get(User, email.lower()); with a row, the endpoint runs.
\* A request that get_user rejects reads and writes nothing that is shared, so
\* it is taken only when no other request is in flight.
Begin(k, ep, auth, sid, out) ==
    /\ resp = NoResponse
    /\ reqs[k].pc = "idle"
    /\ \A j \in 1..(k - 1) : reqs[j].pc # "idle"
    /\ Rejection(auth) # 0 => \A j \in Slots : reqs[j].pc = "idle"
    /\ LET r == [Idle EXCEPT !.ep = ep, !.auth = auth, !.sid = sid]
           u == DbGet(users, Lower(auth.email))
       IN  IF Rejection(auth) # 0
             THEN Reply(k, Response(r, Rejection(auth)))
           ELSE IF u # NoUser
             THEN Endpoint(k, [r EXCEPT !.user = u], out, users)
           ELSE Continue(k, [r EXCEPT !.pc = "insert"])
    /\ UNCHANGED <<config, users, clock, applied>>

\* get_user without a row: u = User(...); s.add(u); s.commit(), then the
\* endpoint runs.  The commit fails on a primary key that another request has
\* inserted meanwhile: an unhandled exception, HTTP 500.
Insert(k, out) ==
    /\ resp = NoResponse
    /\ reqs[k].pc = "insert"
    /\ LET u == NewUser(Lower(reqs[k].auth.email))
       IN  IF PrimaryKeyFree(u.email)
           THEN /\ users' = DbInsert(u)
                /\ Endpoint(k, [reqs[k] EXCEPT !.user = u], out, DbInsert(u))
           ELSE /\ Reply(k, Response(reqs[k], 500))
                /\ UNCHANGED users
    /\ UNCHANGED <<config, clock, applied>>

\* verify_session: db.add(u); db.commit(), and the answer
ActivateCommit(k) ==
    /\ resp = NoResponse
    /\ reqs[k].pc = "commit"
    /\ users' = DbUpdate(reqs[k].u)
    /\ applied' = applied \cup {<<reqs[k].u.email, reqs[k].sid>>}
    /\ Reply(k, VerifyResponse(reqs[k], TRUE))
    /\ UNCHANGED <<config, clock>>

\* time passes; a request does not stay in flight for the whole plan: an
\* activation is committed before the expiry it computed
Tick ==
    /\ resp = NoResponse
    /\ clock + TickDays <= MaxClock
    /\ \A k \in Slots :
          reqs[k].pc = "commit" => reqs[k].u.plan_expires_at > clock + TickDays
    /\ clock' = clock + TickDays
    /\ UNCHANGED <<config, users, reqs, resp, applied>>

\* the response leaves the server, before anything else happens
Send ==
    /\ resp # NoResponse
    /\ resp' = NoResponse
    /\ UNCHANGED <<config, users, reqs, clock, applied>>

Next ==
    \/ \E k \in Slots, ep \in Endpoints, auth \in Authorizations :
          \E sid \in BodySessionIds(ep), out \in Outcomes(ep) :
             Begin(k, ep, auth, sid, out)
    \/ \E k \in Slots : \E out \in Outcomes(reqs[k].ep) : Insert(k, out)
    \/ \E k \in Slots : ActivateCommit(k)
    \/ Tick
    \/ Send

Spec == Init /\ [][Next]_vars

----------------------------------------------------------------------------
(* src/main.py: the application with the token check only.  It has no      *)
(* database: a request is answered in one step.                            *)

MainEndpoints == { "/me/status", "/debug/token" }

\* get_current_user: the status it raises, or 200 when it returns decoded.
\* The HTTPException(401) raised inside the try is caught by except Exception
\* and raised again as HTTPException(401).
get_current_user(auth) ==
    IF auth.scheme = "none" \/ SchemeLower(auth.scheme) # "bearer" THEN 401
    ELSE IF ~auth.verified THEN 401
    ELSE IF /\ FIREBASE_PROJECT_ID # <<>>
            /\ auth.aud # FIREBASE_PROJECT_ID
            /\ ~Contains(FIREBASE_PROJECT_ID, auth.iss) THEN 401
    ELSE 200

\* a request to /me/status or /debug/token of src/main.py
MainRequest(ep, auth) ==
    /\ resp = NoResponse
    /\ resp' = Response([Idle EXCEPT !.ep = ep, !.auth = auth], get_current_user(auth))
    /\ UNCHANGED <<config, users, reqs, clock, applied>>

MainNext ==
    \/ \E ep \in MainEndpoints, auth \in MainAuthorizations : MainRequest(ep, auth)
    \/ Send

MainSpec == Init /\ [][MainNext]_vars

----------------------------------------------------------------------------
(* Properties.  resp.req is the request that resp answers, as it stood when *)
(* the answer was written; the clock does not move before resp is sent.    *)

\* the stored record of the caller that resp answers
CallerKey == Lower(resp.req.auth.email)
CallerRow == DbGet(users, CallerKey)

\* the provider's answer s reports the session as paid or as completed
ReportedPaid(s) == s.payment_status = "paid" \/ s.status = "complete"

\* C1: the gate admits an account (the gated endpoint does not answer 402,
\* /me/status reports active) exactly when is_active holds and plan_expires_at
\* is absent or later than now; at now = plan_expires_at it does not admit.
C1_GateAdmitsIffActiveAndUnexpired ==
    resp.req.user # NoUser =>
        LET account == resp.req.user
            admit == /\ account.is_active = TRUE
                     /\ (account.plan_expires_at = None \/ account.plan_expires_at > clock)
        IN  /\ resp.req.ep \in GatedEndpoints => (resp.status # 402 <=> admit)
            /\ resp.req.ep = "me_status" => (resp.active <=> admit)

\* C1 witness: a gated request answered 402 at the very instant of expiry
C1_RefusedAtExpiryInstant ==
    /\ resp.req.ep \in GatedEndpoints
    /\ resp.req.user.is_active
    /\ resp.req.user.plan_expires_at = clock
    /\ resp.status = 402

\* C2: a verify-session whose provider answer is paid or complete computes the
\* expiry as the time of that confirmation plus 30 days, and ends with the
\* caller's record active with that expiry and with the answer ok = true
\* carrying the provider's status and payment_status.
C2_PaidSessionActivatesFor30Days ==
    [][ /\ \A k \in Slots :
             (reqs[k].pc # "commit" /\ reqs'[k].pc = "commit") =>
                 /\ ReportedPaid(reqs'[k].s)
                 /\ reqs'[k].u.is_active
                 /\ reqs'[k].u.plan_expires_at = clock + PlanDays
        /\ (resp'.req.ep = "verify_session" /\ ReportedPaid(resp'.req.s)) =>
                 /\ resp'.status = 200
                 /\ resp'.ok
                 /\ resp'.st = resp'.req.s.status
                 /\ resp'.pay = resp'.req.s.payment_status
                 /\ CallerRow'.is_active
                 /\ CallerRow'.plan_expires_at = resp'.req.u.plan_expires_at
      ]_vars

\* C2 witness: a session that is complete but unpaid has activated the
\* caller, whose plan now ends 30 days from now
C2_CompleteSessionActivated ==
    /\ resp.req.ep = "verify_session"
    /\ resp.ok
    /\ resp.req.s = [status |-> "complete", payment_status |-> "unpaid"]
    /\ CallerRow.is_active
    /\ CallerRow.plan_expires_at = clock + PlanDays

\* C3 (as claimed): once a session id has been applied to an account, a
\* further activation with the same session id leaves plan_expires_at alone.
C3_RepeatedSessionKeepsExpiry ==
    [][ \A k \in Slots :
          ( /\ reqs[k].pc = "commit"
            /\ reqs'[k].pc = "idle"
            /\ <<reqs[k].u.email, reqs[k].sid>> \in applied ) =>
              DbGet(users', reqs[k].u.email).plan_expires_at
                 = DbGet(users, reqs[k].u.email).plan_expires_at
      ]_vars

\* C4: no interleaving of lookup-or-create leaves two records for a key; a
\* record is created with is_active = false and no plan_expires_at; and once a
\* request for a key is through get_user's lookup-or-create, whether its
\* INSERT succeeded or failed, exactly one record of that key is stored.
C4_OneRecordPerKey ==
    [][ \A key \in Keys :
          /\ Len(users'[key]) <= 1
          /\ (users[key] = <<>> /\ users'[key] # <<>>) =>
                users'[key] = << [email |-> key, is_active |-> FALSE,
                                  plan_expires_at |-> None, created_at |-> clock] >>
          /\ ( /\ resp'.req.auth.verified
               /\ resp'.status \notin {401, 403}
               /\ CallerKey' = key ) => Len(users'[key]) = 1
          /\ \A k \in Slots :
                (reqs'[k].pc = "commit" /\ Lower(reqs'[k].auth.email) = key) =>
                    Len(users'[key]) = 1
      ]_vars

\* C4 witness: a first-time request has lost the race for its key (its INSERT
\* failed) and one record of the key is stored
C4_LostInsertRace ==
    /\ resp.req.pc = "insert"
    /\ resp.req.user = NoUser
    /\ resp.status = 500
    /\ Len(users[CallerKey]) = 1

\* C5 (as claimed): 401 for a missing, malformed or invalid credential and for
\* a token without e-mail, 403 for a policy denial, 402 from a gated endpoint
\* whenever the caller's account is not admitted; a gated endpoint serves only
\* an admitted account; 402 never answers an authentication or policy failure
\* nor a request to /me/status, create-checkout-session or verify-session.
C5_StatusCodes ==
    resp # NoResponse =>
        LET auth == resp.req.auth
            authenticated == auth.scheme = "Bearer" /\ auth.verified /\ auth.email # NoEmail
            allowed == Rejection(auth) # 403
            admitted == /\ CallerRow.is_active
                        /\ (CallerRow.plan_expires_at = None
                              \/ CallerRow.plan_expires_at > clock)
        IN  /\ ~authenticated => resp.status = 401
            /\ (authenticated /\ ~allowed) => resp.status = 403
            /\ (authenticated /\ allowed /\ resp.req.ep \in GatedEndpoints) =>
                  /\ ~admitted => resp.status = 402
                  /\ resp.status \in {200, 404} => admitted
            /\ resp.status = 402 =>
                  authenticated /\ allowed /\ resp.req.ep \in GatedEndpoints

\* C6: a verify-session whose provider answer is neither paid nor complete
\* answers ok = false with the provider's two fields, and stores nothing: every
\* record that existed is as it was, and the caller's record is the one
\* get_user found or created for this request.
C6_UnpaidSessionChangesNothing ==
    [][ ( /\ resp'.req.ep = "verify_session"
          /\ resp'.req.s # NoSession
          /\ ~ReportedPaid(resp'.req.s) ) =>
              /\ resp'.status = 200
              /\ resp'.ok = FALSE
              /\ resp'.st = resp'.req.s.status
              /\ resp'.pay = resp'.req.s.payment_status
              /\ \A key \in Keys : users[key] # <<>> => users'[key] = users[key]
              /\ CallerRow' = resp'.req.user
      ]_vars

\* C6 witness: an active account has verified an open, unpaid session and is
\* stored as it was
C6_UnpaidAnswerToActiveAccount ==
    /\ resp.req.ep = "verify_session"
    /\ resp.status = 200
    /\ ~resp.ok
    /\ resp.st = "open"
    /\ resp.req.user.is_active
    /\ CallerRow = resp.req.user

\* resp answers a verify-session whose provider query was made and raised
ProviderQueryFailed ==
    /\ resp.req.ep = "verify_session"
    /\ resp.req.user # NoUser
    /\ STRIPE_SECRET_KEY
    /\ resp.req.s = NoSession

\* C7 (as claimed): a failed provider query ends the request with 500 or 502.
C7_ProviderFailureIs5xx == ProviderQueryFailed => resp.status \in {500, 502}

\* C7 (amended): a failed provider query ends the request with HTTP 400, never
\* with an ok = true or ok = false result, and stores nothing: every record
\* that existed is as it was, and the caller's record is the one get_user
\* found or created for this request.
C7_ProviderFailureIs400 ==
    [][ ProviderQueryFailed' =>
          /\ resp'.status = 400
          /\ resp'.st = "-" /\ resp'.pay = "-"
          /\ \A key \in Keys : users[key] # <<>> => users'[key] = users[key]
          /\ CallerRow' = resp'.req.user
      ]_vars

\* C7 witness: the provider query of an active account's verify-session failed
C7_FailedQueryOfActiveAccount ==
    /\ ProviderQueryFailed
    /\ resp.status = 400
    /\ resp.req.user.is_active

\* C8: a record changes only by the commit of one activation, which writes
\* is_active = true and that activation's own expiry in one piece and nothing
\* else; every commit leaves exactly its own expiry in the record, whatever
\* was committed before (the last commit wins, windows are not merged); and
\* no record is ever half activated.
C8_ActivationsSerialize ==
    [][ \A key \in Keys : users[key] # <<>> =>
          LET old == users[key][1]
              new == users'[key][1]
          IN  /\ users'[key] # <<>>
              /\ new # old =>
                   \E k \in Slots :
                      /\ reqs[k].pc = "commit" /\ reqs'[k].pc = "idle"
                      /\ reqs[k].u.email = key
                      /\ new = [old EXCEPT !.is_active = TRUE,
                                          !.plan_expires_at = reqs[k].u.plan_expires_at]
              /\ \A k \in Slots :
                   ( /\ reqs[k].pc = "commit" /\ reqs'[k].pc = "idle"
                     /\ reqs[k].u.email = key ) =>
                        /\ new.is_active
                        /\ new.plan_expires_at = reqs[k].u.plan_expires_at
              /\ new.is_active <=> new.plan_expires_at # None
      ]_vars

\* C8 witness: two activations of one account are in flight at once; the
\* later confirmation has committed while the earlier one is still to commit
C8_NewerCommittedOlderPending ==
    \E k \in Slots :
        /\ reqs[k].pc = "commit"
        /\ resp.ok
        /\ resp.req.u.email = reqs[k].u.email
        /\ reqs[k].u.plan_expires_at < resp.req.u.plan_expires_at
        /\ CallerRow.plan_expires_at = resp.req.u.plan_expires_at

\* the derived status of a record at an instant
DerivedStatus(row, now) ==
    IF ~row.is_active THEN "INACTIVE"
    ELSE IF row.plan_expires_at = None \/ row.plan_expires_at > now THEN "ACTIVE"
    ELSE "EXPIRED"

\* C9: no record is deleted; is_active and plan_expires_at of an existing
\* record change only in the step that answers a confirmed verify-session of
\* that account with ok = true; a record becomes ACTIVE only in such a step;
\* and an ACTIVE record stops being ACTIVE only by becoming EXPIRED as time
\* passes, in a step that writes nothing.
C9_OnlyActivationAndTime ==
    [][ \A key \in Keys : users[key] # <<>> =>
          LET old == users[key][1]
              new == users'[key][1]
              before == DerivedStatus(old, clock)
              after == DerivedStatus(new, clock')
              confirmed == /\ resp'.req.ep = "verify_session"
                           /\ resp'.status = 200
                           /\ resp'.ok
                           /\ ReportedPaid(resp'.req.s)
                           /\ CallerKey' = key
          IN  /\ users'[key] # <<>>
              /\ ( \/ new.is_active # old.is_active
                   \/ new.plan_expires_at # old.plan_expires_at ) => confirmed
              /\ (before # "ACTIVE" /\ after = "ACTIVE") => confirmed
              /\ (before = "ACTIVE" /\ after # "ACTIVE") =>
                    /\ after = "EXPIRED"
                    /\ users' = users
                    /\ clock' > clock
      ]_vars

\* C9 witness: an account whose plan had run out is ACTIVE again after a
\* confirmed verify-session
C9_ExpiredAccountReactivated ==
    /\ resp.req.ep = "verify_session"
    /\ resp.ok
    /\ resp.req.user.is_active
    /\ resp.req.user.plan_expires_at <= clock
    /\ DerivedStatus(CallerRow, clock) = "ACTIVE"

\* C10: a verified caller with an e-mail is answered 403 exactly when the
\* policy denies the e-mail; the policy allows every e-mail when both sets are
\* empty, and otherwise exactly those whose lower-cased form is in the set of
\* e-mails or whose part after "@" is in the set of domains.
C10_AccessPolicy ==
    (resp.req.auth.verified /\ resp.req.auth.email # NoEmail) =>
        LET low == Lower(resp.req.auth.email)
            afterAt == { SubSeq(low, i + 1, Len(low)) :
                            i \in {j \in 1..Len(low) : low[j] = "@"} }
            allowed == \/ (ALLOWED_EMAILS = {} /\ ALLOWED_DOMAINS = {})
                       \/ low \in ALLOWED_EMAILS
                       \/ afterAt \cap ALLOWED_DOMAINS # {}
        IN  resp.status = 403 <=> ~allowed

\* C10 witness: with the domain "b" allowed, a caller of the domain "ab" is
\* answered 403
C10_OtherDomainWithSameEndingDenied ==
    /\ ALLOWED_EMAILS = {}
    /\ ALLOWED_DOMAINS = { <<"b">> }
    /\ resp.req.auth.email = <<"x", "@", "a", "b">>
    /\ resp.status = 403

\* the token that resp.req or a request in flight carries is verified, a
\* project id is configured, and neither the token's aud is that id nor does
\* its iss hold it
ForeignToken(auth) ==
    /\ auth.verified
    /\ FIREBASE_PROJECT_ID # <<>>
    /\ auth.aud # FIREBASE_PROJECT_ID
    /\ ~Contains(FIREBASE_PROJECT_ID, auth.iss)

\* C11 (as claimed): with a project id configured, a verified token whose aud
\* and iss both fail to match it is answered 401 and no request carrying it is
\* ever at or past the account lookup; with no project id configured, a
\* verified token (with an e-mail, where the application asks for one) is not
\* answered 401.
C11_ForeignTokenRejected ==
    /\ ForeignToken(resp.req.auth) =>
          /\ resp.status = 401
          /\ resp.req.pc = "idle"
          /\ resp.req.user = NoUser
    /\ \A k \in Slots : ~ForeignToken(reqs[k].auth)
    /\ ( /\ resp.req.auth.verified
         /\ FIREBASE_PROJECT_ID = <<>>
         /\ resp.req.ep \in Endpoints => resp.req.auth.email # NoEmail ) =>
            resp.status # 401

====
